---- MODULE Spec2Model ----
(***************************************************************************)
(* A model of crdt-lib-bench: the timing harness (SimpleBench), the suite  *)
(* orchestrator (CRDTBenchmarks over the CODE_SNIPPETS registry) and the   *)
(* benchmark worker's message handler.                                     *)
(*                                                                         *)
(* Strings are sequences of UTF-16 code units, so that split(" - "),       *)
(* trim(), includes() and the default Array.prototype.sort() are computed  *)
(* as the JavaScript runtime computes them.                                *)
(***************************************************************************)
EXTENDS Integers, Sequences, FiniteSets, TLC

\* ------------------------------------------------------------------ bounds

\* Inbound messages the main thread posts to the worker in one behaviour.
MaxMsgs == 2
\* Tasks a direct caller registers on its harness.
MaxTasks == 2
\* run() calls of a direct caller on one harness instance.
MaxRunCalls == 2
\* Duration of one invocation of an executable, in clock ticks (ms):
\* 0..MaxCost for a directly driven harness.
MaxCost == 2
\* Duration of one invocation of a registry executable in an orchestrated run.
FnCost == 250
\* Times the thread is descheduled between two statements of the measurement
\* loop, and for how long.
MaxPreempts == 1
PreemptGap == 2
\* Constructor options a direct caller passes to SimpleBench.
OptTimeoutMs == 1
OptIterations == 2
\* Orchestrators a direct caller of crdtBenchmarks.ts constructs.
MaxConstructs == 2
\* Worker messages fed to the App component, and results in one of them.
MaxFeeds == 3
MaxBatch == 2
\* Digits the model keeps of a square root: multiples of 1 / SqrtScale.
SqrtScale == 1000
\* Segments of a task name.
MaxSegments == 3

\* ------------------------------------------------------- program constants

\* BENCHMARK_CONFIG.OP_SIZE and .SYNC_ITERATIONS as the module initialises them.
DEFAULT_OP_SIZE == 128
SYNC_ITERATIONS == 20
\* SimpleBench defaults, and the options CRDTBenchmarks passes.
DefaultTimeoutMs == 500
DefaultIterations == 50
warmupIterations == 5
\* The delay of the worker's re-emission timer.
ResendDelayMs == 500

\* ----------------------------------------------------------------- strings

sYjs == <<89, 106, 115>>                                            \* "Yjs"
sAutomerge == <<65, 117, 116, 111, 109, 101, 114, 103, 101>>        \* "Automerge"
sTextInsert == <<84, 101, 120, 116, 32, 73, 110, 115, 101, 114, 116>>   \* "Text Insert"
sListOperations == <<76, 105, 115, 116, 32, 79, 112, 101, 114, 97, 116, 105, 111, 110, 115>>  \* "List Operations"
sLoro == <<76, 111, 114, 111>>    \* "Loro"
sTreeOperations == <<84, 114, 101, 101, 32, 79, 112, 101, 114, 97, 116, 105, 111, 110, 115>>    \* "Tree Operations"
sSimpleSync == <<83, 105, 109, 112, 108, 101, 32, 83, 121, 110, 99>>    \* "Simple Sync"
sX == <<88>>                                                        \* "X"
sY == <<89>>                                                        \* "Y"
sA == <<65>>                                                        \* "A"
sB == <<66>>                                                        \* "B"
sInsert == <<73, 110, 115, 101, 114, 116>>                          \* "Insert"
sInsertPadded == <<73, 110, 115, 101, 114, 116, 32>>                \* "Insert "
sSync == <<83, 121, 110, 99>>                                       \* "Sync"
DELIM == <<32, 45, 32>>                                             \* " - "

\* "<library> - <operation>"
Key(lib, op) == lib \o DELIM \o op

\* Whether sub occurs in s at position i.
OccursAt(s, sub, i) ==
    /\ i >= 1
    /\ i + Len(sub) - 1 <= Len(s)
    /\ SubSeq(s, i, i + Len(sub) - 1) = sub

\* String.prototype.includes
Includes(s, sub) == \E i \in 1..(Len(s) + 1) : OccursAt(s, sub, i)

\* String.prototype.indexOf from position i; 0 when there is no occurrence.
RECURSIVE IndexFrom(_, _, _)
IndexFrom(s, sub, i) ==
    IF i + Len(sub) - 1 > Len(s) THEN 0
    ELSE IF OccursAt(s, sub, i) THEN i
    ELSE IndexFrom(s, sub, i + 1)

\* String.prototype.split with a non-empty separator: cut at every occurrence,
\* scanning left to right.
RECURSIVE Split(_, _)
Split(s, sep) ==
    LET k == IndexFrom(s, sep, 1)
    IN  IF k = 0 THEN <<s>>
        ELSE <<SubSeq(s, 1, k - 1)>> \o Split(SubSeq(s, k + Len(sep), Len(s)), sep)

\* White space as String.prototype.trim removes it (the code units used here).
IsSpace(c) == c \in {9, 10, 11, 12, 13, 32}

RECURSIVE TrimStart(_)
TrimStart(s) ==
    IF s # <<>> /\ IsSpace(Head(s)) THEN TrimStart(Tail(s)) ELSE s

RECURSIVE TrimEnd(_)
TrimEnd(s) ==
    IF s # <<>> /\ IsSpace(s[Len(s)]) THEN TrimEnd(SubSeq(s, 1, Len(s) - 1)) ELSE s

Trim(s) == TrimEnd(TrimStart(s))

\* s sorts before t in the default sort order (code units, then length).
RECURSIVE StrLess(_, _)
StrLess(s, t) ==
    IF t = <<>> THEN FALSE
    ELSE IF s = <<>> THEN TRUE
    ELSE IF Head(s) # Head(t) THEN Head(s) < Head(t)
    ELSE StrLess(Tail(s), Tail(t))

\* Insert x into the ascending sequence q.
RECURSIVE InsertSorted(_, _)
InsertSorted(x, q) ==
    IF q = <<>> THEN <<x>>
    ELSE IF StrLess(x, Head(q)) THEN <<x>> \o q
    ELSE <<Head(q)>> \o InsertSorted(x, Tail(q))

\* Array.prototype.sort() with no comparator, on strings.
RECURSIVE SortStrings(_)
SortStrings(q) ==
    IF q = <<>> THEN <<>> ELSE InsertSorted(Head(q), SortStrings(Tail(q)))

Range(q) == {q[k] : k \in DOMAIN q}

\* Set.prototype.add in insertion order: a sequence without repetition.
SetAdd(q, x) == IF x \in Range(q) THEN q ELSE Append(q, x)

\* ---------------------------------------------------------------- registry

\* CODE_SNIPPETS as shipped, cut to the first keys of its first two operations
\* (key order kept), and the two-entry registry of the end-to-end scenario.
SnippetsShipped ==
    <<Key(sYjs, sTextInsert), Key(sAutomerge, sTextInsert), Key(sYjs, sListOperations)>>
SnippetsXY == <<Key(sX, sInsert), Key(sY, sInsert)>>
\* Three keys of CODE_SNIPPETS that follow one another further down: the one
\* key of an operation, then two keys of the next.
SnippetsTreeSync ==
    <<Key(sLoro, sTreeOperations), Key(sYjs, sSimpleSync), Key(sAutomerge, sSimpleSync)>>
Registries == {SnippetsShipped, SnippetsXY, SnippetsTreeSync}

\* Registries a developer may write: the three keys of the category example,
\* and one whose keys carry a padded operation segment and no delimiter.
SnippetsABSync == <<Key(sA, sInsert), Key(sB, sInsert), Key(sA, sSync)>>
SnippetsPadded == <<Key(sX, sInsert), Key(sY, sInsertPadded), sX>>
AllRegistries == Registries \cup {SnippetsABSync, SnippetsPadded}

\* GroupAdd, had it assigned [key] to a group that exists instead of pushing.
GroupAddReplaces(groups, key) ==
    LET parts == Split(key, DELIM)
    IN  IF Len(parts) > 1
        THEN LET operationType == Trim(parts[2])
             IN  IF \E g \in DOMAIN groups : groups[g].name = operationType
                 THEN [g \in DOMAIN groups |->
                          IF groups[g].name = operationType
                          THEN [groups[g] EXCEPT !.keys = <<key>>]
                          ELSE groups[g]]
                 ELSE Append(groups, [name |-> operationType, keys |-> <<key>>])
        ELSE groups

\* One pass of groupBenchmarksByOperation's forEach body over key: the groups
\* are a sequence of [name, keys] in the order the names were first assigned
\* (the property order of the groups object).
GroupAdd(groups, key) ==
    LET parts == Split(key, DELIM)
    IN  IF Len(parts) > 1
        THEN LET operationType == Trim(parts[2])
             IN  IF \E g \in DOMAIN groups : groups[g].name = operationType
                 THEN [g \in DOMAIN groups |->
                          IF groups[g].name = operationType
                          THEN [groups[g] EXCEPT !.keys = Append(@, key)]
                          ELSE groups[g]]
                 ELSE Append(groups, [name |-> operationType, keys |-> <<key>>])
        ELSE groups

RECURSIVE GroupFold(_, _)
GroupFold(groups, keys) ==
    IF keys = <<>> THEN groups
    ELSE GroupFold(GroupAdd(groups, Head(keys)), Tail(keys))

\* The keys of q whose trimmed second segment is op.
RECURSIVE KeysOfOp(_, _)
KeysOfOp(q, op) ==
    IF q = <<>> THEN <<>>
    ELSE LET parts == Split(Head(q), DELIM)
         IN  (IF Len(parts) > 1 /\ Trim(parts[2]) = op THEN <<Head(q)>> ELSE <<>>)
                 \o KeysOfOp(Tail(q), op)

\* The groups of each registry: a pure function of the registry's keys,
\* tabulated once.
GroupsByOperation == [q \in AllRegistries |-> GroupFold(<<>>, q)]

\* groupBenchmarksByOperation, had it ordered the groups by ascending name.
groupBenchmarksSorted(snippets) ==
    LET names == SortStrings([g \in DOMAIN GroupFold(<<>>, snippets) |->
                                 GroupFold(<<>>, snippets)[g].name])
    IN  [g \in DOMAIN names |-> [name |-> names[g], keys |-> KeysOfOp(snippets, names[g])]]

groupBenchmarksByOperation(snippets) == GroupsByOperation[snippets]

RECURSIVE UniqueOps(_, _)
UniqueOps(acc, keys) ==
    IF keys = <<>> THEN acc
    ELSE LET parts == Split(Head(keys), DELIM)
         IN  UniqueOps(IF Len(parts) > 1 THEN SetAdd(acc, parts[2]) ELSE acc, Tail(keys))

BENCHMARK_GROUPS(snippets) == SortStrings(UniqueOps(<<>>, snippets))

\* BENCHMARK_GROUPS is a module-level const: it is evaluated once, when the
\* module loads, for the registry the module holds.
GroupsAtLoad == [q \in AllRegistries |-> BENCHMARK_GROUPS(q)]

\* The number runBenchmarkGroup writes into the displayed code of key: the
\* live OP_SIZE, or SYNC_ITERATIONS for the keys that include "Sync".
CodeDisplay(key, opSizeNow) ==
    IF Includes(key, sSync) THEN SYNC_ITERATIONS ELSE opSizeNow

\* ------------------------------------------------------------------- state

VARIABLES
    now,            \* performance.now(), in ms
    OP_SIZE,        \* BENCHMARK_CONFIG.OP_SIZE of the worker's realm
    CODE_SNIPPETS,  \* the registry: its keys in insertion order
    inbox,          \* messages posted to the worker, not yet dispatched
    timers,         \* pending setTimeout callbacks of the worker
    outbox,         \* messages the worker has posted, oldest first
    runs,           \* one record per handler activation / orchestrator / harness
    sent,           \* messages posted to the worker so far
    preempts,       \* times the thread was descheduled so far
    constructs,     \* orchestrators a direct caller has constructed so far
    app             \* the state of the App component on the main thread

vars == <<now, OP_SIZE, CODE_SNIPPETS, inbox, timers, outbox, runs, sent, preempts,
          constructs, app>>

\* What an executable may throw (or reject with): an Error, with its message
\* and stack, or a value that is no Error, here a string.
NoThrow == [kind |-> "none"]
Thrown ==
    { [kind |-> "Error", message |-> "boom", stack |-> "Error: boom at fn"],
      [kind |-> "string", value |-> "boom"] }

\* x || d for numbers: 0 (and undefined, written 0) is falsy.
OrElse(x, d) == IF x # 0 THEN x ELSE d

\* new SimpleBench(options)
NewBench(timeoutOpt, iterationsOpt) ==
    [ timeoutMs |-> OrElse(timeoutOpt, DefaultTimeoutMs),
      iterations |-> OrElse(iterationsOpt, DefaultIterations),
      tasks |-> <<>>,
      results |-> <<>>,
      pc |-> "idle",      \* where run()/runTask stands
      ti |-> 0,           \* index of the task of run()'s for-of loop
      i |-> 0,            \* warmup loop counter
      samples |-> <<>>,
      startTime |-> 0,
      endTime |-> 0,
      totalOps |-> 0,
      iteration |-> 0,
      iterationStart |-> 0,
      inflight |-> {},    \* task indexes whose executable has been called and has not settled
      calls |-> 0,        \* invocations of the executable in the current runTask
      reads |-> {},       \* OP_SIZE values the executable read in the current runTask
      failed |-> <<>>,    \* the name of the task whose executable threw, if one did
      thrown |-> NoThrow, \* what it threw
      runCalls |-> 0 ]    \* run() calls so far

\* The locals of runTask, gone when it returns or throws.
ClearLocals(b) ==
    [b EXCEPT !.i = 0, !.samples = <<>>, !.startTime = 0, !.endTime = 0,
              !.totalOps = 0, !.iteration = 0, !.iterationStart = 0,
              !.calls = 0, !.reads = {}]

\* SimpleBench.add
BenchAdd(b, name, code) ==
    [b EXCEPT !.tasks = Append(@, [name |-> name, code |-> code])]

\* BenchReset, had it cleared the tasks only.
BenchResetKeepsResults(b) == [b EXCEPT !.tasks = <<>>]

\* SimpleBench.reset
BenchReset(b) == [b EXCEPT !.tasks = <<>>, !.results = <<>>]

\* BenchRunBegin, had run() kept the results of the run before.
BenchRunBeginKeepsResults(b) ==
    [b EXCEPT !.ti = 1, !.pc = "taskStart", !.failed = <<>>, !.thrown = NoThrow,
              !.runCalls = @ + 1]

\* SimpleBench.run up to its for-of loop.
BenchRunBegin(b) ==
    [b EXCEPT !.results = <<>>, !.ti = 1, !.pc = "taskStart", !.failed = <<>>,
              !.thrown = NoThrow, !.runCalls = @ + 1]

\* ------------------------------------------------------------------ numbers

\* A JavaScript number as far as runTask's arithmetic needs it: a fraction n/d
\* in lowest terms (d > 0), an infinity with the sign of n, or NaN.
RECURSIVE GCD(_, _)
GCD(a, b) == IF b = 0 THEN a ELSE GCD(b, a % b)

Abs(a) == IF a < 0 THEN -a ELSE a

Sign(a) == IF a < 0 THEN -1 ELSE IF a > 0 THEN 1 ELSE 0

NaN == [k |-> "nan", n |-> 0, d |-> 1]

Infinity(sign) == [k |-> "inf", n |-> sign, d |-> 1]

Frac(n, d) ==
    LET g == GCD(Abs(n), d)
    IN  [k |-> "fin", n |-> n \div g, d |-> d \div g]

Num(a) == Frac(a, 1)

NumAdd(x, y) ==
    IF x.k = "nan" \/ y.k = "nan" THEN NaN
    ELSE IF x.k = "inf" /\ y.k = "inf" THEN (IF x.n = y.n THEN x ELSE NaN)
    ELSE IF x.k = "inf" THEN x
    ELSE IF y.k = "inf" THEN y
    ELSE Frac(x.n * y.d + y.n * x.d, x.d * y.d)

NumNeg(x) == IF x.k = "nan" THEN NaN ELSE [x EXCEPT !.n = -x.n]

NumSub(x, y) == NumAdd(x, NumNeg(y))

NumMul(x, y) ==
    IF x.k = "nan" \/ y.k = "nan" THEN NaN
    ELSE IF x.k = "inf" \/ y.k = "inf"
    THEN (IF x.n = 0 \/ y.n = 0 THEN NaN ELSE Infinity(Sign(x.n) * Sign(y.n)))
    ELSE Frac(x.n * y.n, x.d * y.d)

\* x / y: a division by zero gives an infinity, and 0 / 0 gives NaN.
NumDiv(x, y) ==
    IF x.k = "nan" \/ y.k = "nan" THEN NaN
    ELSE IF y.k = "inf" THEN (IF x.k = "inf" THEN NaN ELSE Num(0))
    ELSE IF x.k = "inf" THEN Infinity(IF y.n < 0 THEN -x.n ELSE x.n)
    ELSE IF y.n = 0 THEN (IF x.n = 0 THEN NaN ELSE Infinity(Sign(x.n)))
    ELSE Frac(Sign(y.n) * x.n * y.d, x.d * Abs(y.n))

\* The largest r in lo..hi with r * r <= a (lo * lo <= a).
RECURSIVE IntSqrt(_, _, _)
IntSqrt(a, lo, hi) ==
    IF lo >= hi THEN lo
    ELSE LET mid == (lo + hi + 1) \div 2
         IN  IF mid * mid <= a THEN IntSqrt(a, mid, hi) ELSE IntSqrt(a, lo, mid - 1)

\* Math.sqrt, rounded down to a multiple of 1 / SqrtScale.
NumSqrt(x) ==
    IF x.k = "nan" THEN NaN
    ELSE IF x.n < 0 THEN NaN
    ELSE IF x.k = "inf" THEN x
    ELSE LET whole == x.n \div x.d
             a == (x.n * SqrtScale * SqrtScale) \div x.d
         IN  Frac(IntSqrt(a, 0, SqrtScale * (IntSqrt(whole, 0, whole) + 1)), SqrtScale)

\* samples.reduce((sum, val) => sum + val, 0)
RECURSIVE NumSum(_)
NumSum(q) == IF q = <<>> THEN Num(0) ELSE NumAdd(q[1], NumSum(Tail(q)))

\* (totalOps / totalTime) * 1000
OpsPerSecond(totalOps, totalTime) == NumMul(NumDiv(Num(totalOps), Num(totalTime)), Num(1000))

\* mean, squaredDiffs, variance, stdDev and relativeError of runTask.
RelativeError(samples) ==
    LET vals == [k \in DOMAIN samples |-> Num(samples[k])]
        mean == NumDiv(NumSum(vals), Num(Len(samples)))
        squaredDiffs == [k \in DOMAIN vals |->
                            NumMul(NumSub(vals[k], mean), NumSub(vals[k], mean))]
        variance == NumDiv(NumSum(squaredDiffs), Num(Len(samples)))
        stdDev == NumSqrt(variance)
    IN  NumMul(NumDiv(stdDev, mean), Num(100))

\* The BenchmarkResult runTask builds. Its opsPerSecond and error are kept as
\* what they are computed from (totalOps, executionTime, samples): see
\* ResultOpsPerSecond and ResultError.
MakeResult(b, totalTime) ==
    LET task == b.tasks[b.ti]
        nameParts == Split(task.name, DELIM)
    IN  [ name |-> IF Len(nameParts) > 1 THEN nameParts[2] ELSE task.name,
          library |-> nameParts[1],
          samples |-> b.samples,
          totalOps |-> b.totalOps,
          code |-> task.code,
          executionTime |-> totalTime,
          task |-> task.name,     \* the task measured
          calls |-> b.calls,      \* how often its executable was invoked
          reads |-> b.reads ]     \* the OP_SIZE values its invocations read

\* The result r, marked with the run whose runTask built it (the mark is not
\* part of the record).
Produced(i, r) == r @@ [run |-> i]

\* result.opsPerSecond and result.error of a result r of runTask.
ResultOpsPerSecond(r) == OpsPerSecond(r.totalOps, r.executionTime)
ResultError(r) == RelativeError(r.samples)

\* A handler activation, an orchestrator or a harness a caller drives.
NewRun(kind, msg, pc) ==
    [ kind |-> kind,
      msg |-> msg,
      pc |-> pc,
      opSize |-> 0,
      results |-> <<>>,
      groups |-> <<>>,
      gi |-> 0,
      bench |-> NewBench(0, 0),
      built |-> FALSE,      \* whether the CRDTBenchmarks instance exists
      executed |-> <<>> ]   \* names of the tasks runTask was entered for, in order

\* ---------------------------------------------------------------- messages

\* Inbound, by type: the string "start" ("bare"), {type: "start", opSize}
\* ("start"), {type: "runSingle", benchmarkName, opSize} ("runSingle"), an
\* object of another type ("unknown"), null ("null"), a number ("number") and
\* a string other than "start" ("string"); opSize 0 stands for an absent one.
NoMsg == [type |-> "none", opSize |-> 0, operation |-> <<>>]
Msgs ==
    { [type |-> "bare", opSize |-> 0, operation |-> <<>>],
      [type |-> "start", opSize |-> 10, operation |-> <<>>],
      [type |-> "start", opSize |-> 0, operation |-> <<>>],
      [type |-> "runSingle", opSize |-> 10, operation |-> sInsert],
      [type |-> "unknown", opSize |-> 0, operation |-> <<>>],
      [type |-> "null", opSize |-> 0, operation |-> <<>>],
      [type |-> "number", opSize |-> 0, operation |-> <<>>],
      [type |-> "string", opSize |-> 0, operation |-> <<>>] }

\* typeof e.data === "object": true of objects and of null.
TypeofObject(m) == m.type \in {"start", "runSingle", "unknown", "null"}

\* Outbound: self.postMessage({type, results, message}); text names the
\* message template and n, m the numbers written into it. run is the handler
\* activation that posted it and at the time of posting (neither is part of
\* the payload).
Post(type, run, results, text, n, m) ==
    [type |-> type, run |-> run, results |-> results, text |-> text, n |-> n, m |-> m,
     at |-> now]

\* The handler's catch: error.message and error.stack of an Error, a fixed text
\* and no stack for anything else that was thrown.
ErrorPost(run, error) ==
    IF error.kind = "Error"
    THEN Post("error", run, <<>>, "error", 0, 0)
             @@ [error |-> error.message, stack |-> error.stack]
    ELSE Post("error", run, <<>>, "error", 0, 0)
             @@ [error |-> "An unknown error occurred"]

\* DistinctNames, had the callback counted the results.
DistinctNamesCountsResults(results) == Len(results)

\* new Set(results.map((r) => r.name)).size
DistinctNames(results) == Cardinality({results[k].name : k \in DOMAIN results})

\* ------------------------------------------------------------ the event loop

Finished(r) == r.pc \in {"done", "resolved", "rejected", "harness", "constructed"}

\* WorkerIdle, had every await of a handler let the event loop turn.
WorkerIdleAtAnyAwait == TRUE

\* The worker takes its next task (a message or a timer callback) only when no
\* handler has a continuation left: the registry's executables are synchronous
\* (BenchmarkSnippet.fn: () => void), so every await of a handler resumes in a
\* microtask, before the event loop turns.
WorkerIdle == \A i \in DOMAIN runs : Finished(runs[i])

\* worker.postMessage(m) on the main thread.
Send ==
    /\ sent < MaxMsgs
    /\ \E m \in Msgs : inbox' = Append(inbox, m)
    /\ sent' = sent + 1
    /\ UNCHANGED <<now, OP_SIZE, CODE_SNIPPETS, timers, outbox, runs, preempts, constructs, app>>

\* self.onmessage entered for the oldest queued message: the two branches'
\* tests, and opSize of the structured branch. Reading e.data.type of null
\* throws a TypeError outside the try blocks: the handler's promise rejects
\* with nobody to catch it (kind "threw").
Accept(m) ==
    IF m.type = "bare"
    THEN NewRun("bare", m, "postInit")
    ELSE IF TypeofObject(m)
    THEN IF m.type = "null" THEN NewRun("threw", m, "done")
         ELSE IF m.type = "start"
         THEN [NewRun("structured", m, "postInit") EXCEPT !.opSize = OrElse(m.opSize, OP_SIZE)]
         ELSE NewRun("ignored", m, "done")
    ELSE NewRun("ignored", m, "done")

Dispatch ==
    /\ WorkerIdle
    /\ inbox # <<>>
    /\ runs' = Append(runs, Accept(Head(inbox)))
    /\ inbox' = Tail(inbox)
    /\ UNCHANGED <<now, OP_SIZE, CODE_SNIPPETS, timers, outbox, sent, preempts, constructs, app>>

\* PostInit, had the handler posted nothing before the construction.
PostInitSilent ==
    \E i \in DOMAIN runs :
        /\ runs[i].pc = "postInit"
        /\ runs' = [runs EXCEPT ![i].pc = "construct"]
        /\ UNCHANGED <<now, OP_SIZE, CODE_SNIPPETS, inbox, timers, outbox, sent, preempts, constructs, app>>

\* The first status message of a handler.
PostInit ==
    \E i \in DOMAIN runs :
        /\ runs[i].pc = "postInit"
        /\ outbox' = Append(outbox,
              IF runs[i].kind = "bare"
              THEN Post("status", i, <<>>, "Initializing", 0, 0)
              ELSE Post("status", i, <<>>, "InitializingWithOpSize", runs[i].opSize, 0))
        /\ runs' = [runs EXCEPT ![i].pc = "construct"]
        /\ UNCHANGED <<now, OP_SIZE, CODE_SNIPPETS, inbox, timers, sent, preempts, constructs, app>>

\* new CRDTBenchmarks(onProgress, opSize)
Construct ==
    \E i \in DOMAIN runs :
        /\ runs[i].pc = "construct"
        /\ runs' = [runs EXCEPT ![i].bench = NewBench(DefaultTimeoutMs, DefaultIterations),
                                ![i].built = TRUE,
                                ![i].pc = "postRunning"]
        /\ OP_SIZE' = IF runs[i].opSize # 0 THEN runs[i].opSize ELSE OP_SIZE
        /\ UNCHANGED <<now, CODE_SNIPPETS, inbox, timers, outbox, sent, preempts, constructs, app>>

\* The second status message of a handler.
PostRunning ==
    \E i \in DOMAIN runs :
        /\ runs[i].pc = "postRunning"
        /\ outbox' = Append(outbox,
              IF runs[i].kind = "bare"
              THEN Post("status", i, <<>>, "Running", 0, 0)
              ELSE Post("status", i, <<>>, "RunningWithOpSize", runs[i].opSize, 0))
        /\ runs' = [runs EXCEPT ![i].pc = "runAll"]
        /\ UNCHANGED <<now, OP_SIZE, CODE_SNIPPETS, inbox, timers, sent, preempts, constructs, app>>

\* ------------------------------------------------------------ CRDTBenchmarks

\* runAllBenchmarks up to its loop over Object.entries(benchmarkGroups).
RunAllStart ==
    \E i \in DOMAIN runs :
        /\ runs[i].pc = "runAll"
        /\ runs' = [runs EXCEPT ![i].results = <<>>,
                                ![i].groups = groupBenchmarksByOperation(CODE_SNIPPETS),
                                ![i].gi = 1,
                                ![i].executed = <<>>,
                                ![i].pc = "group"]
        /\ UNCHANGED <<now, OP_SIZE, CODE_SNIPPETS, inbox, timers, outbox, sent, preempts, constructs, app>>

\* runBenchmarkGroup's loop over benchmarkKeys: bench.add(key, snippet.fn, codeDisplay).
RECURSIVE AddKeys(_, _, _)
AddKeys(b, keys, opSizeNow) ==
    IF keys = <<>> THEN b
    ELSE AddKeys(BenchAdd(b, Head(keys), CodeDisplay(Head(keys), opSizeNow)), Tail(keys), opSizeNow)

\* GroupStart, had runBenchmarkGroup written the orchestrator's operation size
\* (the default one when none was given) into the shared configuration.
GroupStartWritesConfig ==
    \E i \in DOMAIN runs :
        /\ runs[i].pc = "group"
        /\ runs[i].gi <= Len(runs[i].groups)
        /\ OP_SIZE' = OrElse(runs[i].opSize, DEFAULT_OP_SIZE)
        /\ runs' = [runs EXCEPT
              ![i].bench = BenchRunBegin(
                  AddKeys(BenchReset(@), runs[i].groups[runs[i].gi].keys, OP_SIZE')),
              ![i].pc = "benchRun"]
        /\ UNCHANGED <<now, CODE_SNIPPETS, inbox, timers, outbox, sent, preempts, constructs, app>>

\* runBenchmarkGroup from bench.reset() to the call of bench.run().
GroupStart ==
    \E i \in DOMAIN runs :
        /\ runs[i].pc = "group"
        /\ runs[i].gi <= Len(runs[i].groups)
        /\ runs' = [runs EXCEPT
              ![i].bench = BenchRunBegin(
                  AddKeys(BenchReset(@), runs[i].groups[runs[i].gi].keys, OP_SIZE)),
              ![i].pc = "benchRun"]
        /\ UNCHANGED <<now, OP_SIZE, CODE_SNIPPETS, inbox, timers, outbox, sent, preempts, constructs, app>>

\* The worker's progress callback: the message it posts for results.
OnProgress(i, results) ==
    Post("progress", i, results, "Completed", DistinctNames(results),
         Len(GroupsAtLoad[CODE_SNIPPETS]))

\* GroupEnd, had runBenchmarkGroup assigned the group's results to this.results.
GroupEndReplaces ==
    \E i \in DOMAIN runs :
        /\ runs[i].pc = "benchRun"
        /\ runs[i].bench.pc = "returned"
        /\ runs' = [runs EXCEPT ![i].results = runs[i].bench.results,
                                ![i].bench.pc = "idle",
                                ![i].gi = @ + 1,
                                ![i].pc = "group"]
        /\ outbox' = IF runs[i].kind \in {"bare", "structured"}
                     THEN Append(outbox, OnProgress(i, runs[i].bench.results))
                     ELSE outbox
        /\ UNCHANGED <<now, OP_SIZE, CODE_SNIPPETS, inbox, timers, sent, preempts, constructs, app>>

\* bench.run() has resolved: this.results.push(...results), then
\* this.onProgress?.(this.results), which in the worker posts a progress message.
GroupEnd ==
    \E i \in DOMAIN runs :
        /\ runs[i].pc = "benchRun"
        /\ runs[i].bench.pc = "returned"
        /\ runs' = [runs EXCEPT ![i].results = @ \o runs[i].bench.results,
                                ![i].bench.pc = "idle",
                                ![i].gi = @ + 1,
                                ![i].pc = "group"]
        /\ outbox' = IF runs[i].kind \in {"bare", "structured"}
                     THEN Append(outbox, OnProgress(i, runs[i].results \o runs[i].bench.results))
                     ELSE outbox
        /\ UNCHANGED <<now, OP_SIZE, CODE_SNIPPETS, inbox, timers, sent, preempts, constructs, app>>

\* runAllBenchmarks returns this.results.
RunAllReturn ==
    \E i \in DOMAIN runs :
        /\ runs[i].pc = "group"
        /\ runs[i].gi > Len(runs[i].groups)
        /\ runs' = [runs EXCEPT ![i].pc =
              IF runs[i].kind = "direct" THEN "resolved" ELSE "postComplete"]
        /\ UNCHANGED <<now, OP_SIZE, CODE_SNIPPETS, inbox, timers, outbox, sent, preempts, constructs, app>>

\* PostComplete, had the handler set no timer.
PostCompleteNoResend ==
    \E i \in DOMAIN runs :
        /\ runs[i].pc = "postComplete"
        /\ outbox' = Append(outbox,
              Post("complete", i, runs[i].results,
                   IF runs[i].kind = "bare" THEN "AllCompleted" ELSE "AllCompletedWithOpSize",
                   runs[i].opSize, 0))
        /\ runs' = [runs EXCEPT ![i].pc = "done"]
        /\ UNCHANGED <<now, OP_SIZE, CODE_SNIPPETS, inbox, timers, sent, preempts, constructs, app>>

\* The handler's last statements: the complete message, and the timer that
\* posts the results once more.
PostComplete ==
    \E i \in DOMAIN runs :
        /\ runs[i].pc = "postComplete"
        /\ LET text == IF runs[i].kind = "bare" THEN "AllCompleted" ELSE "AllCompletedWithOpSize"
           IN  /\ outbox' = Append(outbox,
                     Post("complete", i, runs[i].results, text, runs[i].opSize, 0))
               /\ timers' = timers \cup
                     {[due |-> now + ResendDelayMs,
                       type |-> "progress", run |-> i, results |-> runs[i].results,
                       text |-> text, n |-> runs[i].opSize]}
        /\ runs' = [runs EXCEPT ![i].pc = "done"]
        /\ UNCHANGED <<now, OP_SIZE, CODE_SNIPPETS, inbox, sent, preempts, constructs, app>>

\* CatchError, had the handler reported what the failing category had
\* measured before it posted the error.
CatchErrorReportsPartial ==
    \E i \in DOMAIN runs :
        /\ runs[i].kind \in {"bare", "structured"}
        /\ runs[i].pc = "benchRun"
        /\ runs[i].bench.pc = "rejected"
        /\ outbox' = outbox \o <<OnProgress(i, runs[i].results \o runs[i].bench.results),
                                 ErrorPost(i, runs[i].bench.thrown)>>
        /\ runs' = [runs EXCEPT ![i].pc = "done", ![i].bench.pc = "idle"]
        /\ UNCHANGED <<now, OP_SIZE, CODE_SNIPPETS, inbox, timers, sent, preempts, constructs, app>>

\* CatchError, had the failure been caught per group and the run gone on.
CatchErrorContinues ==
    \E i \in DOMAIN runs :
        /\ runs[i].kind \in {"bare", "structured"}
        /\ runs[i].pc = "benchRun"
        /\ runs[i].bench.pc = "rejected"
        /\ outbox' = Append(outbox, ErrorPost(i, runs[i].bench.thrown))
        /\ runs' = [runs EXCEPT ![i].pc = "group", ![i].gi = @ + 1, ![i].bench.pc = "idle"]
        /\ UNCHANGED <<now, OP_SIZE, CODE_SNIPPETS, inbox, timers, sent, preempts, constructs, app>>

\* CatchError, had the handler had no catch: the rejection is lost.
CatchErrorMissing ==
    \E i \in DOMAIN runs :
        /\ runs[i].kind \in {"bare", "structured"}
        /\ runs[i].pc = "benchRun"
        /\ runs[i].bench.pc = "rejected"
        /\ runs' = [runs EXCEPT ![i].pc = "done", ![i].bench.pc = "idle"]
        /\ UNCHANGED <<now, OP_SIZE, CODE_SNIPPETS, inbox, timers, outbox, sent, preempts, constructs, app>>

\* An executable threw: the rejection leaves run(), runBenchmarkGroup and
\* runAllBenchmarks and reaches the handler's catch, which posts the error.
CatchError ==
    \E i \in DOMAIN runs :
        /\ runs[i].kind \in {"bare", "structured"}
        /\ runs[i].pc = "benchRun"
        /\ runs[i].bench.pc = "rejected"
        /\ outbox' = Append(outbox, ErrorPost(i, runs[i].bench.thrown))
        /\ runs' = [runs EXCEPT ![i].pc = "done", ![i].bench.pc = "idle"]
        /\ UNCHANGED <<now, OP_SIZE, CODE_SNIPPETS, inbox, timers, sent, preempts, constructs, app>>

\* A due timer callback runs: the results are posted again, as a progress message.
TimerFire ==
    /\ WorkerIdle
    /\ \E t \in timers :
        /\ t.due <= now
        /\ outbox' = Append(outbox, Post(t.type, t.run, t.results, t.text, t.n, 0))
        /\ timers' = timers \ {t}
    /\ UNCHANGED <<now, OP_SIZE, CODE_SNIPPETS, inbox, runs, sent, preempts, constructs, app>>

\* The idle worker waits for its earliest timer.
IdleWait ==
    /\ WorkerIdle
    /\ inbox = <<>>
    /\ timers # {}
    /\ \A t \in timers : t.due > now
    /\ \E t \in timers :
        /\ \A u \in timers : t.due <= u.due
        /\ now' = t.due
    /\ UNCHANGED <<OP_SIZE, CODE_SNIPPETS, inbox, timers, outbox, runs, sent, preempts, constructs, app>>

\* --------------------------------------------------------------- SimpleBench

\* What one invocation of an executable may take.
Costs(r) == IF r.kind = "harness" THEN 0..MaxCost ELSE {FnCost}

\* What an invocation of task's executable reads of the shared configuration:
\* the registry's closures read BENCHMARK_CONFIG.OP_SIZE when they run (those
\* of the Sync operations read other fields only).
FnReads(r, task) ==
    IF r.kind = "harness" \/ Includes(task.name, sSync) THEN {} ELSE {OP_SIZE}

\* task.fn() is called: the state until it settles covers the executable's
\* run and the await on what it returned.
Call(r) ==
    LET b == r.bench
    IN  [b EXCEPT !.inflight = @ \cup {b.ti},
                  !.calls = @ + 1,
                  !.reads = @ \cup FnReads(r, b.tasks[b.ti])]

\* Reject, had runTask kept what was measured before the throw as a result.
RejectKeepsPartial(b, v) ==
    [ClearLocals(b) EXCEPT !.inflight = @ \ {b.ti}, !.pc = "rejected", !.ti = 0,
                           !.failed = b.tasks[b.ti].name, !.thrown = v,
                           !.results = Append(@, MakeResult(b, now - b.startTime))]

\* The executable threw v or its promise rejected with v: runTask and run()
\* reject with v.
Reject(b, v) ==
    [ClearLocals(b) EXCEPT !.inflight = @ \ {b.ti}, !.pc = "rejected", !.ti = 0,
                           !.failed = b.tasks[b.ti].name, !.thrown = v]

\* LoopCondition, had the loop tested the iteration cap only.
LoopConditionCapOnly(b) == b.iteration < b.iterations

\* The loop condition of the measurement loop.
LoopCondition(b) == now < b.endTime /\ b.iteration < b.iterations

\* run()'s for-of loop takes the next task and enters runTask.
TaskStart ==
    \E i \in DOMAIN runs :
        LET b == runs[i].bench
        IN  /\ b.pc = "taskStart"
            /\ b.ti <= Len(b.tasks)
            /\ runs' = [runs EXCEPT ![i].bench.pc = "warmup",
                                    ![i].bench.i = 0,
                                    ![i].executed = Append(@, b.tasks[b.ti].name)]
            /\ UNCHANGED <<now, OP_SIZE, CODE_SNIPPETS, inbox, timers, outbox, sent, preempts, constructs, app>>

\* run()'s for-of loop is over: run() returns this.results.
RunReturn ==
    \E i \in DOMAIN runs :
        LET b == runs[i].bench
        IN  /\ b.pc = "taskStart"
            /\ b.ti > Len(b.tasks)
            /\ runs' = [runs EXCEPT ![i].bench.pc = "returned", ![i].bench.ti = 0]
            /\ UNCHANGED <<now, OP_SIZE, CODE_SNIPPETS, inbox, timers, outbox, sent, preempts, constructs, app>>

\* A warmup invocation starts.
WarmupCall ==
    \E i \in DOMAIN runs :
        LET b == runs[i].bench
        IN  /\ b.pc = "warmup"
            /\ b.i < warmupIterations
            /\ runs' = [runs EXCEPT ![i].bench = [Call(runs[i]) EXCEPT !.pc = "warmupAwait"]]
            /\ UNCHANGED <<now, OP_SIZE, CODE_SNIPPETS, inbox, timers, outbox, sent, preempts, constructs, app>>

\* A warmup invocation settles.
WarmupReturn ==
    \E i \in DOMAIN runs :
        LET b == runs[i].bench
        IN  /\ b.pc = "warmupAwait"
            /\ \E c \in Costs(runs[i]) : now' = now + c
            /\ \/ runs' = [runs EXCEPT ![i].bench =
                      [b EXCEPT !.inflight = @ \ {b.ti}, !.i = @ + 1, !.pc = "warmup"]]
               \/ \E v \in Thrown : runs' = [runs EXCEPT ![i].bench = Reject(b, v)]
            /\ UNCHANGED <<OP_SIZE, CODE_SNIPPETS, inbox, timers, outbox, sent, preempts, constructs, app>>

\* The warmup loop is over: samples, startTime, endTime and the counters.
MeasureInit ==
    \E i \in DOMAIN runs :
        LET b == runs[i].bench
        IN  /\ b.pc = "warmup"
            /\ b.i >= warmupIterations
            /\ runs' = [runs EXCEPT ![i].bench =
                  [b EXCEPT !.samples = <<>>, !.startTime = now, !.endTime = now + b.timeoutMs,
                            !.totalOps = 0, !.iteration = 0, !.pc = "loop"]]
            /\ UNCHANGED <<now, OP_SIZE, CODE_SNIPPETS, inbox, timers, outbox, sent, preempts, constructs, app>>

\* The thread is descheduled between two statements of the measurement loop
\* (before a test of the loop condition): the clock moves on.
Preempt ==
    /\ preempts < MaxPreempts
    /\ \E i \in DOMAIN runs : runs[i].bench.pc = "loop"
    /\ now' = now + PreemptGap
    /\ preempts' = preempts + 1
    /\ UNCHANGED <<OP_SIZE, CODE_SNIPPETS, inbox, timers, outbox, runs, sent, constructs, app>>

\* The loop condition holds: a measured invocation starts.
LoopCall ==
    \E i \in DOMAIN runs :
        LET b == runs[i].bench
        IN  /\ b.pc = "loop"
            /\ LoopCondition(b)
            /\ runs' = [runs EXCEPT ![i].bench =
                  [Call(runs[i]) EXCEPT !.iterationStart = now, !.pc = "measureAwait"]]
            /\ UNCHANGED <<now, OP_SIZE, CODE_SNIPPETS, inbox, timers, outbox, sent, preempts, constructs, app>>

\* MeasureReturn, had the loop dropped the samples measured as 0.
MeasureReturnDropsZero ==
    \E i \in DOMAIN runs :
        LET b == runs[i].bench
        IN  /\ b.pc = "measureAwait"
            /\ \E c \in Costs(runs[i]) : now' = now + c
            /\ \/ runs' = [runs EXCEPT ![i].bench =
                      [b EXCEPT !.inflight = @ \ {b.ti},
                                !.samples = IF now' - b.iterationStart = 0 THEN @
                                            ELSE Append(@, now' - b.iterationStart),
                                !.totalOps = @ + 1,
                                !.iteration = @ + 1,
                                !.iterationStart = 0,
                                !.pc = "loop"]]
               \/ \E v \in Thrown : runs' = [runs EXCEPT ![i].bench = Reject(b, v)]
            /\ UNCHANGED <<OP_SIZE, CODE_SNIPPETS, inbox, timers, outbox, sent, preempts, constructs, app>>

\* A measured invocation settles: its duration becomes a sample.
MeasureReturn ==
    \E i \in DOMAIN runs :
        LET b == runs[i].bench
        IN  /\ b.pc = "measureAwait"
            /\ \E c \in Costs(runs[i]) : now' = now + c
            /\ \/ runs' = [runs EXCEPT ![i].bench =
                      [b EXCEPT !.inflight = @ \ {b.ti},
                                !.samples = Append(@, now' - b.iterationStart),
                                !.totalOps = @ + 1,
                                !.iteration = @ + 1,
                                !.iterationStart = 0,
                                !.pc = "loop"]]
               \/ \E v \in Thrown : runs' = [runs EXCEPT ![i].bench = Reject(b, v)]
            /\ UNCHANGED <<OP_SIZE, CODE_SNIPPETS, inbox, timers, outbox, sent, preempts, constructs, app>>

\* Finish, had the loop been left on the time budget only.
FinishOnBudgetOnly ==
    \E i \in DOMAIN runs :
        LET b == runs[i].bench
        IN  /\ b.pc = "loop"
            /\ now >= b.endTime
            /\ runs' = [runs EXCEPT ![i].bench =
                  [ClearLocals(b) EXCEPT !.results =
                                             Append(@, Produced(i, MakeResult(b, now - b.startTime))),
                                         !.ti = @ + 1,
                                         !.pc = "taskStart"]]
            /\ UNCHANGED <<now, OP_SIZE, CODE_SNIPPETS, inbox, timers, outbox, sent, preempts, constructs, app>>

\* The loop condition fails: runTask builds the result, run() pushes it.
Finish ==
    \E i \in DOMAIN runs :
        LET b == runs[i].bench
        IN  /\ b.pc = "loop"
            /\ ~LoopCondition(b)
            /\ runs' = [runs EXCEPT ![i].bench =
                  [ClearLocals(b) EXCEPT !.results =
                                             Append(@, Produced(i, MakeResult(b, now - b.startTime))),
                                         !.ti = @ + 1,
                                         !.pc = "taskStart"]]
            /\ UNCHANGED <<now, OP_SIZE, CODE_SNIPPETS, inbox, timers, outbox, sent, preempts, constructs, app>>

\* ------------------------------------------------ a direct caller of SimpleBench

\* The names a caller registers tasks under.
TaskNames == {Key(sX, sInsert), Key(sY, sInsert)}

\* new SimpleBench({timeoutMs, iterations})
HarnessNew ==
    /\ runs = <<>>
    /\ runs' = Append(runs,
          [NewRun("harness", NoMsg, "harness") EXCEPT
              !.bench = NewBench(OptTimeoutMs, OptIterations), !.built = TRUE])
    /\ UNCHANGED <<now, OP_SIZE, CODE_SNIPPETS, inbox, timers, outbox, sent, preempts, constructs, app>>

\* The caller is between two calls: no run() of the harness is in progress.
Callable(r) == r.kind = "harness" /\ r.bench.pc \in {"idle", "returned", "rejected"}

\* bench.add(name, fn, code); a run() that has settled is behind the caller.
HarnessAdd ==
    \E i \in DOMAIN runs, name \in TaskNames :
        /\ Callable(runs[i])
        /\ Len(runs[i].bench.tasks) < MaxTasks
        /\ runs' = [runs EXCEPT ![i].bench = [BenchAdd(@, name, 0) EXCEPT !.pc = "idle"]]
        /\ UNCHANGED <<now, OP_SIZE, CODE_SNIPPETS, inbox, timers, outbox, sent, preempts, constructs, app>>

\* bench.reset()
HarnessReset ==
    \E i \in DOMAIN runs :
        /\ Callable(runs[i])
        /\ runs' = [runs EXCEPT ![i].bench = [BenchReset(@) EXCEPT !.pc = "idle"]]
        /\ UNCHANGED <<now, OP_SIZE, CODE_SNIPPETS, inbox, timers, outbox, sent, preempts, constructs, app>>

\* bench.run()
HarnessRun ==
    \E i \in DOMAIN runs :
        /\ Callable(runs[i])
        /\ runs[i].bench.runCalls < MaxRunCalls
        /\ runs' = [runs EXCEPT ![i].bench = BenchRunBegin(@), ![i].executed = <<>>]
        /\ UNCHANGED <<now, OP_SIZE, CODE_SNIPPETS, inbox, timers, outbox, sent, preempts, constructs, app>>

\* --------------------------------------------- a direct caller of CRDTBenchmarks

\* The operation sizes a caller constructs orchestrators with.
CallerOpSizes == {10, 99}

\* Code of the caller can run: every orchestrator is constructed, settled, or
\* suspended at the await of an executable's result.
Yielded ==
    \A i \in DOMAIN runs :
        Finished(runs[i]) \/ runs[i].bench.pc \in {"warmupAwait", "measureAwait"}

\* new CRDTBenchmarks(undefined, opSize)
CallerConstruct ==
    /\ constructs < MaxConstructs
    /\ Yielded
    /\ \E opSize \in CallerOpSizes :
        /\ runs' = Append(runs,
              [NewRun("direct", NoMsg, "constructed") EXCEPT
                  !.opSize = opSize,
                  !.bench = NewBench(DefaultTimeoutMs, DefaultIterations),
                  !.built = TRUE])
        /\ OP_SIZE' = IF opSize # 0 THEN opSize ELSE OP_SIZE
    /\ constructs' = constructs + 1
    /\ UNCHANGED <<now, CODE_SNIPPETS, inbox, timers, outbox, sent, preempts, app>>

\* benchmarks.runAllBenchmarks(), called while no other run is in progress.
CallerRunAll ==
    \E i \in DOMAIN runs :
        /\ runs[i].pc = "constructed"
        /\ \A j \in DOMAIN runs : Finished(runs[j])
        /\ runs' = [runs EXCEPT ![i].pc = "runAll"]
        /\ UNCHANGED <<now, OP_SIZE, CODE_SNIPPETS, inbox, timers, outbox, sent, preempts, constructs, app>>

\* An executable threw: the promise of runAllBenchmarks rejects.
RunAllReject ==
    \E i \in DOMAIN runs :
        /\ runs[i].kind = "direct"
        /\ runs[i].pc = "benchRun"
        /\ runs[i].bench.pc = "rejected"
        /\ runs' = [runs EXCEPT ![i].pc = "rejected", ![i].bench.pc = "idle"]
        /\ UNCHANGED <<now, OP_SIZE, CODE_SNIPPETS, inbox, timers, outbox, sent, preempts, constructs, app>>

\* ------------------------------------------------------------ the App component

\* The useState values of App that its worker-message handler reads or writes
\* (the log lines are left out); handled counts the worker messages the
\* handler has run for.
NewApp ==
    [results |-> <<>>, completedTests |-> {}, loading |-> FALSE, statusMessage |-> "",
     runningOperation |-> <<>>,     \* null, written <<>>, or an operation name
     handled |-> 0]

\* p.name === r.name && p.library === r.library
SamePair(p, r) == p.name = r.name /\ p.library = r.library

\* newResults.filter((r) => !prev.some((p) => ...)): each result is tested
\* against prev only.
RECURSIVE FilterNew(_, _)
FilterNew(prev, newResults) ==
    IF newResults = <<>> THEN <<>>
    ELSE (IF \E k \in DOMAIN prev : SamePair(prev[k], Head(newResults))
          THEN <<>> ELSE <<Head(newResults)>>) \o FilterNew(prev, Tail(newResults))

\* The updater given to setResults: prev => [...prev, ...newResults.filter(...)]
MergeResults(prev, newResults) == prev \o FilterNew(prev, newResults)

\* newWorker.onmessage for message m, on the App state a. No message the worker
\* posts carries singleRunComplete, so that branch of 'complete' is never taken.
OnMessage(a, m) ==
    IF m.type = "status" THEN [a EXCEPT !.statusMessage = m.text]
    ELSE IF m.type = "progress"
    THEN [a EXCEPT !.results = IF m.results # <<>> THEN MergeResults(@, m.results) ELSE @,
                   !.statusMessage = m.text,
                   !.completedTests =
                       IF m.results # <<>>
                       THEN {m.results[k].name : k \in DOMAIN m.results} ELSE @]
    ELSE IF m.type = "complete"
    THEN [a EXCEPT !.results = IF m.results # <<>> THEN MergeResults(@, m.results) ELSE @,
                   !.loading = FALSE,
                   !.runningOperation = <<>>,
                   !.statusMessage = m.text]
    ELSE IF m.type = "error"
    THEN [a EXCEPT !.loading = FALSE, !.statusMessage = "Error"]
    ELSE a

\* The main thread runs newWorker.onmessage for the oldest message of the
\* worker it has not handled yet.
AppOnMessage ==
    /\ app.handled < Len(outbox)
    /\ app' = [OnMessage(app, outbox[app.handled + 1]) EXCEPT !.handled = @ + 1]
    /\ UNCHANGED <<now, OP_SIZE, CODE_SNIPPETS, inbox, timers, outbox, runs, sent, preempts, constructs>>

\* The state every run of the App starts from: loading, and no results.
Started(a, operation, text) ==
    [a EXCEPT !.loading = TRUE, !.results = <<>>, !.completedTests = {},
              !.runningOperation = operation, !.statusMessage = text]

\* The operation size of the App: its useState(BENCHMARK_CONFIG.OP_SIZE), with
\* the slider left where it is.
AppOpSize == DEFAULT_OP_SIZE

\* runBenchmarks, the onClick of the button that is disabled while loading.
RunBenchmarks ==
    /\ sent < MaxMsgs
    /\ ~app.loading
    /\ app' = Started(app, <<>>, "Starting")
    /\ inbox' = Append(inbox, [type |-> "start", opSize |-> AppOpSize, operation |-> <<>>])
    /\ sent' = sent + 1
    /\ UNCHANGED <<now, OP_SIZE, CODE_SNIPPETS, timers, outbox, runs, preempts, constructs>>

\* runSingleBenchmark(operation), the onClick of the play button of one of
\* BENCHMARK_GROUPS, disabled while another operation or the suite is running.
RunSingleBenchmark ==
    /\ sent < MaxMsgs
    /\ \E operation \in Range(GroupsAtLoad[CODE_SNIPPETS]) :
        /\ ~(app.loading /\ app.runningOperation # operation)
        /\ app' = Started(app, operation, "StartingOperation")
        /\ inbox' = Append(inbox,
              [type |-> "runSingle", opSize |-> AppOpSize, operation |-> operation])
    /\ sent' = sent + 1
    /\ UNCHANGED <<now, OP_SIZE, CODE_SNIPPETS, timers, outbox, runs, preempts, constructs>>

\* The results a worker message may carry, as far as the App reads them, and
\* the batches of them.
FedResults ==
    { [name |-> sInsert, library |-> sX, executionTime |-> 1],
      [name |-> sInsert, library |-> sX, executionTime |-> 2],
      [name |-> sInsert, library |-> sY, executionTime |-> 1] }
Batches == UNION {[1..n -> FedResults] : n \in 0..MaxBatch}

\* self.postMessage of a worker, seen from the App: any message of the four
\* outbound types, with any batch of results.
WorkerPosts ==
    /\ Len(outbox) < MaxFeeds
    /\ \E type \in {"status", "progress", "complete", "error"}, batch \in Batches :
          outbox' = Append(outbox,
              Post(type, 0, IF type \in {"progress", "complete"} THEN batch ELSE <<>>,
                   type, 0, 0))
    /\ UNCHANGED <<now, OP_SIZE, CODE_SNIPPETS, inbox, timers, runs, sent, preempts, constructs, app>>

\* ---------------------------------------------------------- specifications

\* The modules are loaded and nothing has run, whatever the registry holds.
InitState ==
    /\ now = 0
    /\ OP_SIZE = DEFAULT_OP_SIZE
    /\ inbox = <<>>
    /\ timers = {}
    /\ outbox = <<>>
    /\ runs = <<>>
    /\ sent = 0
    /\ preempts = 0
    /\ constructs = 0
    /\ app = NewApp

Init == InitState /\ CODE_SNIPPETS \in Registries

\* The benchmark worker.
Next ==
    \/ Send
    \/ Dispatch
    \/ PostInit
    \/ Construct
    \/ PostRunning
    \/ RunAllStart
    \/ GroupStart
    \/ TaskStart
    \/ WarmupCall
    \/ WarmupReturn
    \/ MeasureInit
    \/ LoopCall
    \/ MeasureReturn
    \/ Finish
    \/ RunReturn
    \/ GroupEnd
    \/ RunAllReturn
    \/ PostComplete
    \/ CatchError
    \/ TimerFire
    \/ IdleWait

Spec == Init /\ [][Next]_vars

\* SimpleBench under a direct caller.
InitBench == Init /\ CODE_SNIPPETS = SnippetsXY

NextBench ==
    \/ HarnessNew
    \/ HarnessAdd
    \/ HarnessReset
    \/ HarnessRun
    \/ TaskStart
    \/ WarmupCall
    \/ WarmupReturn
    \/ MeasureInit
    \/ Preempt
    \/ LoopCall
    \/ MeasureReturn
    \/ Finish
    \/ RunReturn

\* The worker's side of Next: what its event loop runs.
WorkerNext ==
    \/ Dispatch
    \/ PostInit
    \/ Construct
    \/ PostRunning
    \/ RunAllStart
    \/ GroupStart
    \/ TaskStart
    \/ WarmupCall
    \/ WarmupReturn
    \/ MeasureInit
    \/ LoopCall
    \/ MeasureReturn
    \/ Finish
    \/ RunReturn
    \/ GroupEnd
    \/ RunAllReturn
    \/ PostComplete
    \/ CatchError
    \/ TimerFire
    \/ IdleWait

\* The worker with a live event loop: a queued message, a due timer or the
\* continuation of a handler is run, and every executable settles.
LiveSpec == Spec /\ WF_vars(WorkerNext)

SpecBench == InitBench /\ [][NextBench]_vars

\* CRDTBenchmarks under a direct caller.
NextOrch ==
    \/ CallerConstruct
    \/ CallerRunAll
    \/ RunAllStart
    \/ GroupStart
    \/ TaskStart
    \/ WarmupCall
    \/ WarmupReturn
    \/ MeasureInit
    \/ LoopCall
    \/ MeasureReturn
    \/ Finish
    \/ RunReturn
    \/ GroupEnd
    \/ RunAllReturn
    \/ RunAllReject

InitOrch == InitState /\ CODE_SNIPPETS \in AllRegistries

SpecOrch == InitOrch /\ [][NextOrch]_vars

\* The App component fed by a worker.
NextApp ==
    \/ WorkerPosts
    \/ AppOnMessage

SpecApp == InitBench /\ [][NextApp]_vars

\* A harness with one task, whatever its name. The names: up to MaxSegments
\* segments joined by " - ".
Segments == {<<>>, sA, sB, <<67>>}

RECURSIVE Join(_)
Join(segs) ==
    IF Len(segs) = 1 THEN segs[1] ELSE segs[1] \o DELIM \o Join(Tail(segs))

Names == {Join(segs) : segs \in UNION {[1..n -> Segments] : n \in 1..MaxSegments}}

\* new SimpleBench({timeoutMs, iterations}).add(name, fn, code)
InitNames ==
    /\ now = 0
    /\ OP_SIZE = DEFAULT_OP_SIZE
    /\ CODE_SNIPPETS = SnippetsXY
    /\ inbox = <<>>
    /\ timers = {}
    /\ outbox = <<>>
    /\ sent = 0
    /\ preempts = 0
    /\ constructs = 0
    /\ app = NewApp
    /\ \E name \in Names :
          runs = <<[NewRun("harness", NoMsg, "harness") EXCEPT
                      !.bench = BenchAdd(NewBench(OptTimeoutMs, OptIterations), name, 0),
                      !.built = TRUE]>>

NextNames ==
    \/ HarnessRun
    \/ TaskStart
    \/ WarmupCall
    \/ WarmupReturn
    \/ MeasureInit
    \/ LoopCall
    \/ MeasureReturn
    \/ Finish
    \/ RunReturn

SpecNames == InitNames /\ [][NextNames]_vars

\* The harness's side of NextBench: what run() and runTask do once called.
BenchNext ==
    \/ TaskStart
    \/ WarmupCall
    \/ WarmupReturn
    \/ MeasureInit
    \/ LoopCall
    \/ MeasureReturn
    \/ Finish
    \/ RunReturn

\* SimpleBench whose async functions are continued and whose executables
\* settle: every invocation returns or throws.
LiveBench == SpecBench /\ WF_vars(BenchNext)

\* The App and its worker.
NextSystem ==
    \/ RunBenchmarks
    \/ RunSingleBenchmark
    \/ AppOnMessage
    \/ WorkerNext

SpecSystem == InitBench /\ [][NextSystem]_vars

\* The App and its worker with live event loops on both sides: the worker's
\* as in LiveSpec, and the main thread's, which runs newWorker.onmessage for
\* every message the worker posted.
LiveSystem == SpecSystem /\ WF_vars(WorkerNext) /\ WF_vars(AppOnMessage)

\* ------------------------------------------------------------------ claims

\* The executables called and not yet settled, over all runs.
InFlight == {<<i, t>> \in (DOMAIN runs) \X (0..MaxTasks + 1) : t \in runs[i].bench.inflight}

\* The results a run holds: those it has collected and those of its harness.
ResultsOf(r) == Range(r.results) \cup Range(r.bench.results)

TaskNamesOf(b) == [k \in DOMAIN b.tasks |-> b.tasks[k].name]

IsPrefix(p, q) == Len(p) <= Len(q) /\ SubSeq(q, 1, Len(p)) = p

\* C1: at any moment at most one executable is in progress, within a run and
\* across the runs of the worker: a start message that arrives while a run is
\* in progress is taken up only after that run's handler has finished.
C1_OneExecutableAtATime ==
    /\ Cardinality(InFlight) <= 1
    /\ \A i, j \in DOMAIN runs : (i < j /\ ~Finished(runs[j])) => Finished(runs[i])

\* C1's case: an executable of the first run is in progress while a start
\* message waits in the worker's queue.
C1_Witness ==
    /\ Len(runs) = 1
    /\ runs[1].bench.inflight # {}
    /\ inbox # <<>>
    /\ Head(inbox).type \in {"bare", "start"}

\* C2: run() enters runTask for the tasks registered since the last reset(),
\* in registration order, one after another, and once it has returned holds
\* exactly one result per registered task, in that order.
C2_RunInRegistrationOrder ==
    \A i \in DOMAIN runs :
        LET b == runs[i].bench
        IN  runs[i].kind = "harness" =>
              /\ b.inflight \subseteq {b.ti}
              /\ b.pc \notin {"idle"} => IsPrefix(runs[i].executed, TaskNamesOf(b))
              /\ b.pc \in {"taskStart", "warmup", "warmupAwait", "loop", "measureAwait"} =>
                    /\ Len(b.results) = Len(runs[i].executed) - (IF b.pc = "taskStart" THEN 0 ELSE 1)
                    /\ \A k \in DOMAIN b.results : b.results[k].task = b.tasks[k].name
              /\ b.pc = "returned" =>
                    /\ runs[i].executed = TaskNamesOf(b)
                    /\ Len(b.results) = Len(b.tasks)
                    /\ \A k \in DOMAIN b.results : b.results[k].task = b.tasks[k].name

\* C2's case: a second run() has returned on a harness holding the same name twice.
C2_Witness ==
    \E i \in DOMAIN runs :
        LET b == runs[i].bench
        IN  /\ runs[i].kind = "harness"
            /\ b.pc = "returned"
            /\ b.runCalls = 2
            /\ Len(b.tasks) = 2
            /\ b.tasks[1].name = b.tasks[2].name
            /\ Len(b.results) = 2

\* C3: every result runTask has produced has at least one sample.
C3_AtLeastOneSample ==
    \A i \in DOMAIN runs : \A r \in ResultsOf(runs[i]) : Len(r.samples) >= 1

\* C4: for every completed task the executable was invoked warmupIterations
\* times plus once per sample.
C4_WarmupExcluded ==
    \A i \in DOMAIN runs :
        \A r \in ResultsOf(runs[i]) : r.calls = warmupIterations + Len(r.samples)

\* C4's case: a completed task with two samples, one of them measured as 0.
C4_Witness ==
    \E i \in DOMAIN runs :
        \E r \in ResultsOf(runs[i]) :
            /\ Len(r.samples) = 2
            /\ r.samples[1] = 0
            /\ r.calls = 7

\* The handler activations of the two start shapes.
IsWorkerRun(r) == r.kind \in {"bare", "structured"}

\* The positions of outbox holding a message of run i with the given type.
Posted(i, type) == {k \in DOMAIN outbox : outbox[k].run = i /\ outbox[k].type = type}

\* The operation of a registry key: its second segment, trimmed.
OpOf(key) == Trim(Split(key, DELIM)[2])

\* The operations of q in the order of their first appearance.
RECURSIVE FirstOps(_, _)
FirstOps(acc, q) ==
    IF q = <<>> THEN acc ELSE FirstOps(SetAdd(acc, OpOf(Head(q))), Tail(q))

\* The keys of snippets, operation by operation in the order ops, and in
\* registry order inside an operation.
RECURSIVE KeysByOps(_, _)
KeysByOps(snippets, ops) ==
    IF ops = <<>> THEN <<>>
    ELSE KeysOfOp(snippets, Head(ops)) \o KeysByOps(snippets, Tail(ops))

FinalTexts == {"AllCompleted", "AllCompletedWithOpSize"}

\* The positions of outbox holding the re-emission of run i's final results.
Resent(i) ==
    {k \in DOMAIN outbox :
        outbox[k].run = i /\ outbox[k].type # "complete" /\ outbox[k].text \in FinalTexts}

TimerPending(i) == \E t \in timers : t.run = i

Quiescent == WorkerIdle /\ inbox = <<>> /\ timers = {}

\* C7: a runSingle message makes the worker run the tasks of the named
\* category and finish with a result, with at least one sample, for each key of
\* that category and for no other.
C7_RunSingleRunsCategory ==
    \A i \in DOMAIN runs :
        (runs[i].msg.type = "runSingle" /\ Quiescent) =>
            \E c \in Posted(i, "complete") :
                LET res == outbox[c].results
                    keys == KeysOfOp(CODE_SNIPPETS, runs[i].msg.operation)
                IN  /\ Len(res) = Len(keys)
                    /\ \A k \in DOMAIN res :
                          /\ res[k].task = keys[k]
                          /\ res[k].name = runs[i].msg.operation
                          /\ Len(res[k].samples) >= 1

NoRepeats(q) == \A j, k \in DOMAIN q : q[j] = q[k] => j = k

\* C8: when an executable throws in a worker run, the run ends with exactly
\* one 'error' message and no 'complete' message (nor a timer to re-emit one),
\* the failing task is the last one entered, and no task was entered twice.
C8_ThrowAbortsRun ==
    \A i \in DOMAIN runs :
        IsWorkerRun(runs[i]) =>
            /\ (runs[i].bench.failed # <<>> /\ runs[i].pc = "done") =>
                  Cardinality(Posted(i, "error")) = 1
            /\ Posted(i, "error") # {} =>
                  /\ Cardinality(Posted(i, "error")) = 1
                  /\ Posted(i, "complete") = {}
                  /\ ~TimerPending(i)
                  /\ runs[i].pc = "done"
                  /\ runs[i].bench.inflight = {}
                  /\ runs[i].executed # <<>>
                  /\ runs[i].executed[Len(runs[i].executed)] = runs[i].bench.failed
                  /\ NoRepeats(runs[i].executed)
                  /\ \A k \in DOMAIN outbox :
                        outbox[k].run = i => \A e \in Posted(i, "error") : k <= e

\* C8's case: the first task of a run has thrown, later tasks and a later
\* category were left, and the worker has come to rest.
C8_Witness ==
    /\ CODE_SNIPPETS = SnippetsShipped
    /\ Quiescent
    /\ \E i \in DOMAIN runs :
        /\ Posted(i, "error") # {}
        /\ Len(runs[i].executed) = 1

\* The terminal messages of run i.
Outcomes(i) == Posted(i, "complete") \cup Posted(i, "error")

Accepted(i) == i \in DOMAIN runs /\ IsWorkerRun(runs[i])

\* Every message posted so far has been taken up, and every run an accepted
\* start message began has exactly one terminal message.
Settled ==
    /\ inbox = <<>>
    /\ \A i \in DOMAIN runs : Accepted(i) => Cardinality(Outcomes(i)) = 1

\* C9: a run an accepted start message begins never has more than one terminal
\* message, and whatever has been posted to the worker, and whatever the
\* outcome of the runs before, the worker again and again reaches the point
\* where every message is taken up and every accepted run has exactly one
\* terminal message.
C9_OneTerminalOutcome ==
    /\ [](\A i \in DOMAIN runs : Accepted(i) => Cardinality(Outcomes(i)) <= 1)
    /\ []<>Settled

\* C9's case: a run that ended with an error is followed by a run that completed.
C9_Witness ==
    /\ Len(runs) = 2
    /\ Accepted(1) /\ Posted(1, "error") # {}
    /\ Accepted(2) /\ Posted(2, "complete") # {}

\* C10: every invocation of a task's executable runs with the operation size
\* the configuration held when the task was built (the one written into its
\* displayed code).
C10_BuildTimeOpSize ==
    \A i \in DOMAIN runs :
        /\ \A r \in ResultsOf(runs[i]) :
              ~Includes(r.task, sSync) => r.reads \subseteq {r.code}
        /\ LET b == runs[i].bench
           IN  (b.ti \in DOMAIN b.tasks /\ ~Includes(b.tasks[b.ti].name, sSync)) =>
                   b.reads \subseteq {b.tasks[b.ti].code}

\* C11: a run a bare "start" message begins executes every task with the
\* default operation size, DEFAULT_OP_SIZE, in its invocations and in its
\* displayed code, whatever the messages before it carried.
C11_BareStartUsesDefault ==
    \A i \in DOMAIN runs :
        runs[i].kind = "bare" =>
            /\ \A r \in ResultsOf(runs[i]) :
                  ~Includes(r.task, sSync) =>
                      r.reads \subseteq {DEFAULT_OP_SIZE} /\ r.code = DEFAULT_OP_SIZE
            /\ runs[i].bench.reads \subseteq {DEFAULT_OP_SIZE}

\* The (operation, implementation) pairs of the results fed to the App so far.
FedPairs ==
    { <<outbox[k].results[j].name, outbox[k].results[j].library>> :
        <<k, j>> \in { kj \in (1..app.handled) \X (1..MaxBatch) :
                          /\ outbox[kj[1]].type \in {"progress", "complete"}
                          /\ kj[2] \in DOMAIN outbox[kj[1]].results } }

\* C12: whatever batches the App has been fed, once or repeatedly, its merged
\* result list has exactly one entry per distinct (operation, implementation)
\* pair fed.
C12_MergeOnePerPair == Len(app.results) = Cardinality(FedPairs)

\* q is in ascending order without repetition.
StrictlyAscending(q) == \A k \in 1..(Len(q) - 1) : StrLess(q[k], q[k + 1])

\* The second segments of the keys that have one.
OperationSegments(snippets) ==
    { Split(snippets[k], DELIM)[2] :
        k \in {j \in DOMAIN snippets : Len(Split(snippets[j], DELIM)) > 1} }

\* The categories a run has gone through.
CategoriesRun(r) == {r.groups[g].name : g \in 1..(r.gi - 1)}

\* C13: BENCHMARK_GROUPS is the ascending, duplicate-free list of the
\* operation segments of the registry keys, it is <<"Insert", "Sync">> for
\* the keys "A - Insert", "B - Insert", "A - Sync", and a run of
\* runAllBenchmarks that has returned went through exactly the categories it
\* names.
C13_GroupsAreTheCategoriesRun ==
    /\ StrictlyAscending(GroupsAtLoad[CODE_SNIPPETS])
    /\ Range(GroupsAtLoad[CODE_SNIPPETS]) = OperationSegments(CODE_SNIPPETS)
    /\ CODE_SNIPPETS = SnippetsABSync => GroupsAtLoad[CODE_SNIPPETS] = <<sInsert, sSync>>
    /\ \A i \in DOMAIN runs :
          runs[i].pc = "resolved" =>
              CategoriesRun(runs[i]) = Range(GroupsAtLoad[CODE_SNIPPETS])

\* The keys of the form "<Library> - <Operation>": those the delimiter cuts.
RECURSIVE FormKeys(_)
FormKeys(snippets) ==
    IF snippets = <<>> THEN <<>>
    ELSE (IF Len(Split(Head(snippets), DELIM)) > 1 THEN <<Head(snippets)>> ELSE <<>>)
             \o FormKeys(Tail(snippets))

\* C14: a runAllBenchmarks that has returned holds exactly one result for each
\* registry key of the form "<Library> - <Operation>", with the key's first
\* segment as library and its second as operation, and no other result.
C14_OneResultPerKey ==
    \A i \in DOMAIN runs :
        runs[i].pc = "resolved" =>
            LET res == runs[i].results
                keys == FormKeys(CODE_SNIPPETS)
            IN  /\ Len(res) = Len(keys)
                /\ \A k \in DOMAIN keys :
                      Cardinality({j \in DOMAIN res : res[j].task = keys[k]}) = 1
                /\ \A j \in DOMAIN res :
                      /\ res[j].task \in Range(keys)
                      /\ res[j].library = Split(res[j].task, DELIM)[1]
                      /\ res[j].name = Split(res[j].task, DELIM)[2]

\* C14's case: a run over the registry with a padded key and a key without
\* delimiter has returned with its two results.
C14_Witness ==
    /\ CODE_SNIPPETS = SnippetsPadded
    /\ \E i \in DOMAIN runs : runs[i].pc = "resolved" /\ Len(runs[i].results) = 2

\* The inbound shapes outside the protocol.
OutsideProtocol == {"unknown", "null", "number", "string"}

\* C15: a message of a shape outside the protocol is ignored silently: its
\* handler throws nothing, posts nothing, constructs nothing, runs no task
\* and leaves the worker's configuration as it was.
C15_UnknownMessagesIgnored ==
    /\ \A i \in DOMAIN runs :
          runs[i].msg.type \in OutsideProtocol =>
              /\ runs[i].kind = "ignored"
              /\ \A k \in DOMAIN outbox : outbox[k].run # i
              /\ ~runs[i].built
              /\ runs[i].executed = <<>>
              /\ runs[i].bench = NewBench(0, 0)
    /\ (\A i \in DOMAIN runs : runs[i].msg.type \in OutsideProtocol) =>
          OP_SIZE = DEFAULT_OP_SIZE /\ timers = {}

\* C16: for every completed task, opsPerSecond * (executionTime / 1000)
\* equals the number of its samples, a measured elapsed time of 0 included.
C16_AccountingIdentity ==
    \A i \in DOMAIN runs :
        \A r \in ResultsOf(runs[i]) :
            NumMul(ResultOpsPerSecond(r), NumDiv(Num(r.executionTime), Num(1000)))
                = Num(Len(r.samples))

\* x = 0 and x >= 0 of a number (both false of NaN).
NumIsZero(x) == x.k = "fin" /\ x.n = 0
NumAtLeastZero(x) == x.k # "nan" /\ x.n >= 0

\* C17: the relative error of a result is a number >= 0 when the task has more
\* than one sample, and is 0 when it has one sample or none, whatever the
\* samples are.
C17_RelativeErrorDefined ==
    \A i \in DOMAIN runs :
        \A r \in ResultsOf(runs[i]) :
            /\ Len(r.samples) > 1 => NumAtLeastZero(ResultError(r))
            /\ Len(r.samples) <= 1 => NumIsZero(ResultError(r))

\* C18: reset() leaves the harness without tasks and without results, a
\* second reset() changes nothing, and a run() on a harness without tasks
\* enters no task, calls no executable and returns an empty list.
C18_ResetClears ==
    /\ [][HarnessReset =>
            \A i \in DOMAIN runs :
                runs'[i] # runs[i] =>
                    /\ runs'[i].bench.tasks = <<>>
                    /\ runs'[i].bench.results = <<>>
                    /\ BenchReset(runs'[i].bench) = runs'[i].bench]_vars
    /\ [](\A i \in DOMAIN runs :
            LET b == runs[i].bench
            IN  (runs[i].kind = "harness" /\ b.tasks = <<>>) =>
                    /\ b.pc \in {"idle", "taskStart", "returned"}
                    /\ b.inflight = {}
                    /\ b.calls = 0
                    /\ b.pc \in {"taskStart", "returned"} => runs[i].executed = <<>>
                    /\ b.pc = "returned" => b.results = <<>>)

\* C18's case: a second run() has returned on a harness that holds no task,
\* after executables of tasks it held before have run (the clock has moved).
C18_Witness ==
    \E i \in DOMAIN runs :
        LET b == runs[i].bench
        IN  /\ runs[i].kind = "harness"
            /\ b.tasks = <<>>
            /\ b.pc = "returned"
            /\ b.runCalls = 2
            /\ now > 0

\* The messages the progress callback of run i has posted, oldest first.
RECURSIVE ProgressOf(_, _)
ProgressOf(i, q) ==
    IF q = <<>> THEN <<>>
    ELSE (IF Head(q).run = i /\ Head(q).text = "Completed" THEN <<Head(q)>> ELSE <<>>)
             \o ProgressOf(i, Tail(q))

\* The tasks of the results of q after its first n.
TasksAfter(q, n) == [k \in 1..(Len(q) - n) |-> q[n + k].task]

\* C19: in a full-suite run the progress callback has run once for each
\* category finished, and the list it was given the j-th time is the list of
\* the time before followed by the results of the j-th category; the last one
\* is the run's cumulative list.
C19_ProgressIsCumulative ==
    \A i \in DOMAIN runs :
        IsWorkerRun(runs[i]) =>
            LET ps == ProgressOf(i, outbox)
            IN  /\ Len(ps) = (IF runs[i].gi = 0 THEN 0 ELSE runs[i].gi - 1)
                /\ \A j \in DOMAIN ps :
                      LET prev == IF j = 1 THEN <<>> ELSE ps[j - 1].results
                      IN  /\ IsPrefix(prev, ps[j].results)
                          /\ TasksAfter(ps[j].results, Len(prev)) = runs[i].groups[j].keys
                          /\ j = Len(ps) => ps[j].results = runs[i].results

\* C19's case: the callback has run for the second category of the shipped
\* registry, with the three results collected so far.
C19_Witness ==
    \E i \in DOMAIN runs :
        /\ IsWorkerRun(runs[i])
        /\ Len(ProgressOf(i, outbox)) = 2
        /\ Len(ProgressOf(i, outbox)[1].results) = 2
        /\ Len(ProgressOf(i, outbox)[2].results) = 3

C21_SplitAtFirstDelimiter ==
    \A i \in DOMAIN runs : \A k \in DOMAIN runs[i].bench.results :
        LET r == runs[i].bench.results[k]
            at == IndexFrom(r.task, DELIM, 1)
        IN  IF at = 0
            THEN r.library = r.task /\ r.name = r.task
            ELSE /\ r.library = SubSeq(r.task, 1, at - 1)
                 /\ r.name = SubSeq(r.task, at + Len(DELIM), Len(r.task))

\* A measured invocation of run i starts in this step.
MeasuredCallStarts(i) ==
    /\ i \in DOMAIN runs /\ i \in DOMAIN runs'
    /\ runs[i].bench.pc = "loop"
    /\ runs'[i].bench.pc = "measureAwait"

\* A sample is appended to the samples of run i in this step.
SampleTaken(i) ==
    /\ i \in DOMAIN runs /\ i \in DOMAIN runs'
    /\ Len(runs'[i].bench.samples) = Len(runs[i].bench.samples) + 1

RunInProgress(i) ==
    i \in DOMAIN runs /\ runs[i].bench.pc \notin {"idle", "returned", "rejected"}

\* run() of run i has settled: it returned, or rejected because an executable threw.
RunSettled(i) ==
    i \in DOMAIN runs /\ runs[i].bench.pc \in {"returned", "rejected"}

\* C23: when every executable settles, run() of the harness (run 1, the only
\* one of the direct caller) terminates, and it returns unless an executable threw: the measurement loop ends at the iteration cap even if
\* the clock does not advance, with no more samples than the cap.
C23_RunTerminates ==
    /\ RunInProgress(1) ~> RunSettled(1)
    /\ [](\A i \in DOMAIN runs :
            /\ runs[i].bench.pc = "rejected" => runs[i].bench.failed # <<>>
            /\ runs[i].bench.pc = "returned" =>
                  /\ runs[i].bench.failed = <<>>
                  /\ Len(runs[i].bench.results) = Len(runs[i].bench.tasks))

\* run() has returned the result of a task during whose measurement the clock
\* did not advance: the loop ended at the iteration cap.
C23_Witness ==
    \E i \in DOMAIN runs :
        /\ runs[i].bench.pc = "returned"
        /\ \E k \in DOMAIN runs[i].bench.results :
              LET r == runs[i].bench.results[k]
              IN  r.executionTime = 0 /\ Len(r.samples) = runs[i].bench.iterations

\* C24: when an executable throws, in warmup or in measurement, run() rejects
\* with what the failing task threw: the results hold the tasks before the
\* failing one and nothing of the failing task, and runTask was entered for no
\* task registered after it, so none of those was invoked.
C24_ThrowPropagates ==
    \A i \in DOMAIN runs :
        LET b == runs[i].bench
            entered == runs[i].executed
        IN  (runs[i].kind = "harness" /\ b.pc = "rejected") =>
                /\ Len(entered) \in 1..Len(b.tasks)
                /\ b.failed = b.tasks[Len(entered)].name
                /\ entered = SubSeq(TaskNamesOf(b), 1, Len(entered))
                /\ Len(b.results) = Len(entered) - 1
                /\ \A k \in DOMAIN b.results : b.results[k].task = b.tasks[k].name
                /\ b.inflight = {}

\* run() rejected at the first of two tasks, after invocations that took time.
C24_Witness ==
    \E i \in DOMAIN runs :
        /\ runs[i].bench.pc = "rejected"
        /\ Len(runs[i].bench.tasks) = 2
        /\ Len(runs[i].executed) = 1
        /\ now > 0

\* The constructor of the orchestrator of run i runs in this step.
ConstructorRuns(i) ==
    /\ i \in DOMAIN runs /\ i \in DOMAIN runs'
    /\ ~runs[i].built
    /\ runs'[i].built

DescriptionOf(v) == IF v.kind = "Error" THEN v.message ELSE v.value

\* C26: an 'error' message carries the description of what the failing
\* executable threw, and the stack when there is one: message and stack of an
\* Error, and a description of the value when the value is no Error.
C26_ErrorDescribesThrown ==
    \A k \in DOMAIN outbox :
        outbox[k].type = "error" =>
            LET v == runs[outbox[k].run].bench.thrown
            IN  /\ outbox[k].error = DescriptionOf(v)
                /\ v.kind = "Error" => outbox[k].stack = v.stack

\* The run the App's latest click began: the worker takes the App's messages
\* up in the order they were posted, one run per message.
CurrentRun == sent

\* The App has handled the 'complete' message of run i.
CompleteHandled(i) ==
    \E k \in 1..app.handled : outbox[k].type = "complete" /\ outbox[k].run = i

\* C27: after the App has cleared its results for a new run, every entry of
\* its result list was produced by that run, and once it has handled the run's
\* 'complete' message the list holds every result of the run: the delayed
\* re-emission of the run before puts no old result in and keeps no new one out.
C27_ResultsAreOfCurrentRun ==
    CurrentRun >= 1 =>
        /\ \A k \in DOMAIN app.results : app.results[k].run = CurrentRun
        /\ CompleteHandled(CurrentRun) =>
              Range(runs[CurrentRun].results) \subseteq Range(app.results)

\* C28: whenever the App is loading, after runBenchmarks or after
\* runSingleBenchmark, a 'complete' or 'error' message arrives and loading
\* becomes false again, every executable having settled.
C28_LoadingEnds == app.loading ~> ~app.loading

\* The keys of the first n groups, in order.
RECURSIVE KeysUpTo(_, _)
KeysUpTo(groups, n) ==
    IF n = 0 THEN <<>> ELSE KeysUpTo(groups, n - 1) \o groups[n].keys

\* The positions in the outbox of the progress messages of run i, the last one.
LastProgress(i) ==
    CHOOSE k \in Posted(i, "progress") : \A j \in Posted(i, "progress") : j <= k

\* C29: when a task throws in the k-th category of a worker run, the run has
\* posted one progress message per category before the k-th and none for the
\* k-th, the last of them carries exactly the results of categories 1..k-1,
\* and no message carries a result the run measured in category k.
C29_FailedCategoryUnreported ==
    \A i \in DOMAIN runs :
        Posted(i, "error") # {} =>
            LET k == runs[i].gi
                before == KeysUpTo(runs[i].groups, k - 1)
                failing == Range(runs[i].groups[k].keys)
            IN  /\ Cardinality(Posted(i, "progress")) = k - 1
                /\ \A p \in Posted(i, "progress") : \A e \in Posted(i, "error") : p < e
                /\ k > 1 =>
                      [j \in DOMAIN outbox[LastProgress(i)].results |->
                          outbox[LastProgress(i)].results[j].task] = before
                /\ \A m \in DOMAIN outbox : \A j \in DOMAIN outbox[m].results :
                      outbox[m].results[j].run = i =>
                          outbox[m].results[j].task \notin failing

\* A run failed in its second category, after a task of that category had
\* finished.
C29_Witness ==
    \E i \in DOMAIN runs :
        /\ Posted(i, "error") # {}
        /\ runs[i].gi = 2
        /\ runs[i].bench.results # <<>>
        /\ Posted(i, "progress") # {}

\* The messages run i has posted, oldest first, as type and text.
MessagesOf(i) ==
    LET own == SelectSeq(outbox, LAMBDA m : m.run = i)
    IN  [k \in DOMAIN own |-> <<own[k].type, own[k].text>>]

\* What a run over n categories posts when no task throws: the two status
\* messages, a progress message per category, the completion message and its
\* delayed re-emission.
FullOrder(r, n) ==
    LET with == IF r.kind = "bare" THEN "" ELSE "WithOpSize"
    IN  << <<"status", "Initializing" \o with>>, <<"status", "Running" \o with>> >>
        \o [k \in 1..n |-> <<"progress", "Completed">>]
        \o << <<"complete", "AllCompleted" \o with>>, <<"progress", "AllCompleted" \o with>> >>

\* C30: the messages of a run the worker accepted appear in one order: the
\* 'Initializing' status, the 'Running' status, a progress message per
\* category, the completion message, and after it only the one delayed
\* re-emission; a run in which a task throws posts the error in place of what
\* was still to come, and nothing after it.
C30_MessageOrder ==
    \A i \in DOMAIN runs :
        IsWorkerRun(runs[i]) =>
            LET posted == MessagesOf(i)
                n == Len(GroupsByOperation[CODE_SNIPPETS])
                full == FullOrder(runs[i], n)
            IN  /\ \/ IsPrefix(posted, full)
                   \/ /\ posted # <<>>
                      /\ posted[Len(posted)] = <<"error", "error">>
                      /\ Len(posted) <= n + 2
                      /\ IsPrefix(SubSeq(posted, 1, Len(posted) - 1), full)
                /\ (runs[i].pc = "done" /\ ~TimerPending(i)) =>
                      (posted = full \/ posted[Len(posted)] = <<"error", "error">>)

\* A run over two categories has posted all six of its messages.
C30_Witness ==
    \E i \in DOMAIN runs :
        /\ IsWorkerRun(runs[i])
        /\ Len(GroupsByOperation[CODE_SNIPPETS]) = 2
        /\ Len(MessagesOf(i)) = 6
        /\ MessagesOf(i) = FullOrder(runs[i], 2)

====
